---- MODULE Spec2Model ----
(***************************************************************************)
(* Model of graph/elastic/iterator.go: the Iterator over an Elasticsearch  *)
(* index (construction, Next, Contains, Reset, Clone, Size, Stats,         *)
(* Describe, Err) together with the scroll / count / field-mapping calls   *)
(* it makes on the QuadStore's client.                                     *)
(***************************************************************************)
EXTENDS Integers, Sequences, FiniteSets, TLC

\* ------------------------------------------------------------------ bounds

\* Largest number of documents the index holds (and so of hits of a query).
MaxHits == 3

\* The Iterator instances of a run: the original (1) and its clone (2).
Instances == {1, 2}

\* The count queries of one iterator are counted up to this number.
MaxCounts == 2

\* --------------------------------------------------------- values and docs

\* Document ids of the index.
Ids == 1 .. MaxHits

\* quad.Direction values used by the requests.
Dirs == {"subject", "object"}

QuadMetadata == "metadata"

\* quad.Any, the direction of an "all" iterator.
DirAny == "any"

\* Node hashes a quad's directions can hold.
Hashes == {1, 2}

\* graph.Value: a NodeHash, a QuadHash or a QuadRefGraphValue.  id is the
\* hash (0 is the empty string); type "nil" is the nil interface value.
Value(t, i) == [type |-> t, id |-> i]

NilValue == Value("nil", 0)

\* The fields of the quad document with id i: odd ids have subject 1, even
\* ids subject 2; every quad has object 1; metadata name and time.
DocField(i, d) ==
    CASE d = "subject" -> IF i % 2 = 1 THEN 1 ELSE 2
      [] d = "object" -> 1
      [] d = "name" -> IF i % 2 = 1 THEN "x" ELSE "y"
      [] d = "time" -> i
      [] OTHER -> 0

\* QuadHash.Get(d): the component of the quad hash for direction d.
Get(v, d) == DocField(v.id, d)

\* ---------------------------------------------------------------- queries

\* elastic.NewTermQuery("nullterm", "nullterm"): no document has that field.
NullTerm == [kind |-> "term", field |-> "nullterm", value |-> 0, filters |-> <<>>]

TermQuery(d, h) == [kind |-> "term", field |-> d, value |-> h, filters |-> <<>>]

TypeQuery(t) == [kind |-> "type", field |-> t, value |-> 0, filters |-> <<>>]

BoolQuery(fs) == [kind |-> "bool", field |-> "", value |-> 0, filters |-> fs]

\* The leaves a bool query's filter list holds.
RangeQuery(k, from, to) == [kind |-> "range", field |-> k, from |-> from, to |-> to]

RegexpQuery(k, pat) == [kind |-> "regexp", field |-> k, from |-> pat, to |-> pat]

NullFilter == [kind |-> "null", field |-> "nullterm", from |-> <<>>, to |-> <<>>]

\* A date string "t" as the time it denotes; 0 when it is no date.
ParseTime(s) ==
    IF Len(s) = 1 /\ s[1] \in {"1", "2", "3", "4", "5"}
    THEN CASE s[1] = "1" -> 1 [] s[1] = "2" -> 2 [] s[1] = "3" -> 3
           [] s[1] = "4" -> 4 [] OTHER -> 5
    ELSE 0

\* Does the document with id i satisfy one filter of a bool query?
MatchesFilter(f, i) ==
    CASE f.kind = "range" ->
            /\ f.field = "time"
            /\ ParseTime(f.from) # 0 /\ ParseTime(f.to) # 0
            /\ ParseTime(f.from) <= DocField(i, f.field)
            /\ DocField(i, f.field) <= ParseTime(f.to)
      [] f.kind = "regexp" ->
            /\ f.field = "name"
            /\ \/ f.from = <<".", "*">>
               \/ f.from = <<DocField(i, f.field)>>
      [] OTHER -> FALSE

\* Does the document with id i satisfy query q?
Matches(q, i) ==
    CASE q.kind = "term" -> q.field \in Dirs /\ DocField(i, q.field) = q.value
      [] q.kind = "type" -> TRUE
      [] q.kind = "bool" -> \A k \in 1 .. Len(q.filters) : MatchesFilter(q.filters[k], i)
      [] OTHER -> FALSE

\* ------------------------------------------------------- field mapping

\* The field mapping of an index without metadata fields, and what
\* getFieldMap returns when the request or the unpacking fails (nil).
EmptyMap == [k \in {} |-> ""]

\* A field mapping with a text field "name" and a date field "time".
FullMap == [k \in {"name", "time"} |-> IF k = "time" THEN "date" ELSE "text"]

\* getFieldMap: the mapping of the quads type, nil when the call errors.
getFieldMap(q) == IF q.up THEN q.mapping ELSE EmptyMap

\* isTime: the mapping types key as a date; a missing key panics inside
\* and is recovered, which returns false.
isTime(fieldMap, keyVal) ==
    keyVal \in DOMAIN fieldMap /\ fieldMap[keyVal] = "date"

\* strings.Split(value, "=>") on a string given as its sequence of tokens:
\* the parts between the "=>" tokens, in order.
RECURSIVE SplitFrom(_, _, _, _)
SplitFrom(s, k, cur, acc) ==
    IF k > Len(s) THEN Append(acc, cur)
    ELSE IF s[k] = "=>" THEN SplitFrom(s, k + 1, <<>>, Append(acc, cur))
    ELSE SplitFrom(s, k + 1, Append(cur, s[k]), acc)

Split(s) == SplitFrom(s, 1, <<>>, <<>>)

\* The filter maps (QuadRefGraphValue) a metadata request can carry:
\* a pattern, a well-formed range, a malformed range, and a malformed range
\* next to a pattern.
FilterMaps ==
    << [k \in {"name"} |-> <<"x">>],
       [k \in {"time"} |-> <<"1", "=>", "2">>],
       [k \in {"time"} |-> <<"2">>],
       [k \in {"name", "time"} |-> IF k = "name" THEN <<".", "*">> ELSE <<"2">>] >>

\* The orders in which a range over the map's keys can visit them.
KeyOrders(m) ==
    { o \in UNION { [1 .. n -> DOMAIN m] : n \in {Cardinality(DOMAIN m)} } :
        \A a, b \in DOMAIN o : a # b => o[a] # o[b] }

\* The loop that leaves the loop on a malformed range without adding the
\* nullterm filter.
RECURSIVE FilterQueriesSkipsMalformed(_, _, _, _, _)
FilterQueriesSkipsMalformed(fieldMap, m, o, k, acc) ==
    IF k > Len(o) THEN acc
    ELSE IF isTime(fieldMap, o[k])
    THEN LET timeRange == Split(m[o[k]])
         IN  IF Len(timeRange) < 2
             THEN acc
             ELSE FilterQueriesSkipsMalformed(fieldMap, m, o, k + 1,
                     Append(acc, RangeQuery(o[k], timeRange[1], timeRange[2])))
    ELSE FilterQueriesSkipsMalformed(fieldMap, m, o, k + 1,
             Append(acc, RegexpQuery(o[k], m[o[k]])))

\* The loop of NewIterator over the filter map, visiting keys in order o
\* from position k: a time key becomes a range filter, or the nullterm
\* filter and a break when its value has fewer than two parts; any other
\* key becomes a regexp filter.
RECURSIVE FilterQueries(_, _, _, _, _)
FilterQueries(fieldMap, m, o, k, acc) ==
    IF k > Len(o) THEN acc
    ELSE IF isTime(fieldMap, o[k])
    THEN LET timeRange == Split(m[o[k]])
         IN  IF Len(timeRange) < 2
             THEN Append(acc, NullFilter)
             ELSE FilterQueries(fieldMap, m, o, k + 1,
                     Append(acc, RangeQuery(o[k], timeRange[1], timeRange[2])))
    ELSE FilterQueries(fieldMap, m, o, k + 1,
             Append(acc, RegexpQuery(o[k], m[o[k]])))

\* ---------------------------------------------------------- the backend

\* The states of the index contents: ids 1..n in ascending or descending
\* order, for every n up to MaxHits.
Snapshots ==
    { [k \in 1 .. n |-> k] : n \in 0 .. MaxHits } \cup
    { [k \in 1 .. n |-> n + 1 - k] : n \in 0 .. MaxHits }

\* How a scroll request past the last hit answers: with an error (io.EOF),
\* with an empty page whose total-hit count is 0, or with an empty page that
\* still reports the query's total-hit count.
EndStyles == {"error", "emptyZero", "emptyTotal"}

\* *elastic.SearchResult: nil, or the hits, the scroll id and Hits.TotalHits.
\* A scroll id names the hits selected when the scroll started and how many
\* of them were served.
NoScroll == [snap |-> <<>>, off |-> 0]

NilResultSet == [nil |-> TRUE, hits |-> <<>>, ScrollId |-> NoScroll, TotalHits |-> 0]

SearchResult(hits, scroll, total) ==
    [nil |-> FALSE, hits |-> hits, ScrollId |-> scroll, TotalHits |-> total]

\* What a client call returns: err is "none", "eof" (no more hits) or
\* "fail" (the request failed); page is nil when err is not "none".
Response(e, page) == [err |-> e, page |-> page]

Min(a, b) == IF a < b THEN a ELSE b

\* One scroll page of the selected hits snap, starting after offset off.
PageAt(q, snap, off) ==
    LET hits == SubSeq(snap, off + 1, Min(off + q.pageSize, Len(snap)))
    IN  IF ~q.up THEN Response("fail", NilResultSet)
        ELSE IF hits # <<>>
        THEN Response("none",
                 SearchResult(hits, [snap |-> snap, off |-> off + Len(hits)], Len(snap)))
        ELSE IF q.endStyle = "error" THEN Response("eof", NilResultSet)
        ELSE IF q.endStyle = "emptyZero"
        THEN Response("none", SearchResult(<<>>, [snap |-> snap, off |-> off], 0))
        ELSE Response("none", SearchResult(<<>>, [snap |-> snap, off |-> off], Len(snap)))

\* The documents of the queried type that satisfy query, in index order.
Hits(q, query) == SelectSeq(q.docs, LAMBDA i : Matches(query, i))

\* client.Scroll(indexName).ScrollId(id).Do(ctx)
ScrollNext(q, id) == PageAt(q, id.snap, id.off)

\* qs.getSize(resultType, query): the number of matching documents; -1 and
\* an error when the count request fails.
getSize(q, query) ==
    IF q.up THEN [size |-> Len(Hits(q, query)), err |-> "none"]
    ELSE [size |-> -1, err |-> "fail"]

\* ------------------------------------------------------------- Iterator

\* The Iterator struct (uid, tags and the qs pointer are left out: qs is the
\* one shared store, the variable qs).
Iterator(d, resultType, query, hash, isAll) ==
    [ dir |-> d, resultSet |-> NilResultSet, resultType |-> resultType,
      resultIndex |-> 0, query |-> query, size |-> -1, hash |-> hash,
      isAll |-> isAll, result |-> NilValue, err |-> "nil" ]

\* Does NewIterator panic on a failed type assertion?  val.(QuadRefGraphValue)
\* runs only when the field mapping is not empty, val.(NodeHash) on every
\* other direction.
NewIteratorPanics(q, d, val) ==
    IF d = QuadMetadata
    THEN Cardinality(DOMAIN getFieldMap(q)) # 0 /\ val.type # "QuadRefGraphValue"
    ELSE val.type # "NodeHash"

\* NewIterator that builds the bool query of no filters when the field
\* mapping is empty.
NewIteratorEmptyMatchesAll(q, resultType, d, val, o) ==
    IF d = QuadMetadata
    THEN LET elasticFieldMapping == getFieldMap(q)
             query == IF Cardinality(DOMAIN elasticFieldMapping) # 0
                      THEN BoolQuery(FilterQueries(elasticFieldMapping,
                                         FilterMaps[val.id], o, 1, <<>>))
                      ELSE BoolQuery(<<>>)
         IN  Iterator(d, resultType, query, val, FALSE)
    ELSE Iterator(d, resultType, TermQuery(d, val.id), val, FALSE)

\* NewIterator, with o the order in which the range over the filter map
\* visits its keys.
NewIterator(q, resultType, d, val, o) ==
    IF d = QuadMetadata
    THEN LET elasticFieldMapping == getFieldMap(q)
             query == IF Cardinality(DOMAIN elasticFieldMapping) # 0
                      THEN BoolQuery(FilterQueries(elasticFieldMapping,
                                         FilterMaps[val.id], o, 1, <<>>))
                      ELSE NullTerm
         IN  Iterator(d, resultType, query, val, FALSE)
    ELSE Iterator(d, resultType, TermQuery(d, val.id), val, FALSE)

\* The key orders NewIterator can take for val.
Orders(val) ==
    IF val.type = "QuadRefGraphValue" THEN KeyOrders(FilterMaps[val.id]) ELSE {<<>>}

NewAllIterator(resultType) ==
    Iterator(DirAny, resultType, TypeQuery(resultType), Value("NodeHash", 0), TRUE)

\* makeElasticResultSet that scrolls over every document, whatever the query.
makeElasticResultSetUnfiltered(it, q) == PageAt(q, q.docs, 0)

\* makeElasticResultSet that hides the error of the scroll-start request
\* behind an empty result.
makeElasticResultSetHidesError(it, q) ==
    LET r == IF it.isAll THEN PageAt(q, q.docs, 0)
             ELSE PageAt(q, Hits(q, it.query), 0)
    IN  IF r.err # "none" THEN Response("none", SearchResult(<<>>, NoScroll, 0))
        ELSE r

\* makeElasticResultSet: the scroll-start request, unfiltered for "all".
makeElasticResultSet(it, q) ==
    IF it.isAll THEN PageAt(q, q.docs, 0)
    ELSE PageAt(q, Hits(q, it.query), 0)

\* The tail of Next: store the hit id as a QuadHash or a NodeHash.
SetResult(it, resultID) ==
    [it EXCEPT !.result = IF it.resultType = "quads"
                          THEN Value("QuadHash", resultID)
                          ELSE Value("NodeHash", resultID)]

\* What one call returns: the iterator afterwards, the value returned, the
\* panic it ended in ("none" when it returned), the backend requests it made
\* (among "start", "next", "count") and the error of the last of them.
Outcome(it, ret, p, calls, e) ==
    [it |-> it, ret |-> ret, panic |-> p, calls |-> calls, err |-> e]

\* Next.
NextStep(it, q) ==
    LET results == makeElasticResultSet(it, q)
        started == it.resultSet.nil
        it1 == IF started /\ results.err = "none"
               THEN [it EXCEPT !.resultSet = results.page] ELSE it
        made == IF started THEN {"start"} ELSE {}
    IN  IF started /\ results.err # "none"
        THEN Outcome(it, FALSE, "none", {"start"}, results.err)
        ELSE IF it1.resultIndex < Len(it1.resultSet.hits)
        THEN Outcome(SetResult([it1 EXCEPT !.resultIndex = @ + 1],
                               it1.resultSet.hits[it1.resultIndex + 1]),
                     TRUE, "none", made, "none")
        ELSE LET newResults == ScrollNext(q, it1.resultSet.ScrollId)
             IN  IF newResults.err # "none" \/ newResults.page.TotalHits = 0
                 THEN Outcome(it1, FALSE, "none", made \cup {"next"}, newResults.err)
                 ELSE IF Len(newResults.page.hits) = 0
                 THEN Outcome([it1 EXCEPT !.resultSet = newResults.page],
                              FALSE, "index out of range", made \cup {"next"}, "none")
                 ELSE Outcome(SetResult([it1 EXCEPT !.resultSet = newResults.page,
                                                    !.resultIndex = 1],
                                        newResults.page.hits[1]),
                              TRUE, "none", made \cup {"next"}, "none")

\* Contains that trusts every quad, as it does for a metadata iterator.
ContainsTrusts(it, v) ==
    IF it.isAll
    THEN Outcome([it EXCEPT !.result = v], TRUE, "none", {}, "none")
    ELSE IF v.type # "QuadHash"
    THEN Outcome(it, FALSE, "type assertion", {}, "none")
    ELSE Outcome([it EXCEPT !.result = v], TRUE, "none", {}, "none")

\* Contains that rewinds the page it holds when it finds the candidate.
ContainsSeeks(it, v) ==
    IF it.isAll
    THEN Outcome([it EXCEPT !.result = v, !.resultIndex = 0], TRUE, "none", {}, "none")
    ELSE IF v.type # "QuadHash"
    THEN Outcome(it, FALSE, "type assertion", {}, "none")
    ELSE LET val == Value("NodeHash", Get(v, it.dir))
         IN  IF val = it.hash \/ it.dir = QuadMetadata
             THEN Outcome([it EXCEPT !.result = v, !.resultIndex = 0],
                          TRUE, "none", {}, "none")
             ELSE Outcome(it, FALSE, "none", {}, "none")

\* Contains that stores the candidate before it tests it.
ContainsAlwaysStores(it, v) ==
    IF it.isAll
    THEN Outcome([it EXCEPT !.result = v], TRUE, "none", {}, "none")
    ELSE IF v.type # "QuadHash"
    THEN Outcome(it, FALSE, "type assertion", {}, "none")
    ELSE LET val == Value("NodeHash", Get(v, it.dir))
         IN  Outcome([it EXCEPT !.result = v],
                     val = it.hash \/ it.dir = QuadMetadata, "none", {}, "none")

\* Contains.
ContainsStep(it, v) ==
    IF it.isAll
    THEN Outcome([it EXCEPT !.result = v], TRUE, "none", {}, "none")
    ELSE IF v.type # "QuadHash"
    THEN Outcome(it, FALSE, "type assertion", {}, "none")
    ELSE LET val == Value("NodeHash", Get(v, it.dir))
         IN  IF val = it.hash \/ it.dir = QuadMetadata
             THEN Outcome([it EXCEPT !.result = v], TRUE, "none", {}, "none")
             ELSE Outcome(it, FALSE, "none", {}, "none")

\* Reset that drops the page and keeps the position.
ResetKeepsIndex(it) == [it EXCEPT !.resultSet = NilResultSet]

\* Reset that also clears the error.
ResetClearsErr(it) ==
    [it EXCEPT !.resultSet = NilResultSet, !.resultIndex = 0, !.err = "nil"]

\* Reset that also forgets the cached size.
ResetClearsSize(it) ==
    [it EXCEPT !.resultSet = NilResultSet, !.resultIndex = 0, !.size = -1]

\* Reset.
ResetStep(it) == [it EXCEPT !.resultSet = NilResultSet, !.resultIndex = 0]

\* Clone as a copy of the struct, pagination state included.
CloneCopiesState(it, q, o) == it

\* Clone (the copy of the tags is left out), with o the key order of the
\* NewIterator call it makes.
CloneStep(it, q, o) ==
    IF it.isAll THEN NewAllIterator(it.resultType)
    ELSE NewIterator(q, it.resultType, it.dir, it.hash, o)

\* Size that also fetches the first page when the iterator holds none.
SizePrefetches(it, q) ==
    LET results == makeElasticResultSet(it, q)
        it1 == IF it.resultSet.nil /\ results.err = "none"
               THEN [it EXCEPT !.resultSet = results.page] ELSE it
        made == IF it.resultSet.nil THEN {"start"} ELSE {}
    IN  IF it.size = -1
        THEN LET c == getSize(q, it.query)
             IN  Outcome([it1 EXCEPT !.size = c.size,
                                     !.err = IF c.err # "none" THEN "error" ELSE @],
                         c.size, "none", made \cup {"count"}, c.err)
        ELSE Outcome(it1, it.size, "none", made, "none")

\* Size that asks the backend on every call.
SizeAlwaysCounts(it, q) ==
    LET c == getSize(q, it.query)
    IN  Outcome([it EXCEPT !.size = c.size,
                           !.err = IF c.err # "none" THEN "error" ELSE @],
                c.size, "none", {"count"}, c.err)

\* Size: the count query runs only while size is -1.
SizeStep(it, q) ==
    IF it.size = -1
    THEN LET c == getSize(q, it.query)
         IN  Outcome([it EXCEPT !.size = c.size,
                                !.err = IF c.err # "none" THEN "error" ELSE @],
                     c.size, "none", {"count"}, c.err)
    ELSE Outcome(it, it.size, "none", {}, "none")

\* Err.
Err(it) == it.err

\* ------------------------------------------------------------ the state

VARIABLES
    its,    \* the live Iterator instances, by instance number
    qs,     \* the store behind qs.client: docs, up, pageSize, endStyle, mapping
    panic,  \* "none", or the run-time panic that ended the process
    last,   \* the last call made: which, on which instance, what it returned
    hist    \* per instance, what its calls so far did (for the properties)

vars == <<its, qs, panic, last, hist>>

\* The requests an iterator is built from: exact-match on a direction, all
\* documents of a type, a metadata filter map, and two requests whose value
\* has not the shape the direction requires.
Requests ==
    { [isAll |-> FALSE, resultType |-> "quads", d |-> d, val |-> Value("NodeHash", h)] :
        d \in Dirs, h \in Hashes } \cup
    { [isAll |-> TRUE, resultType |-> t, d |-> DirAny, val |-> Value("NodeHash", 0)] :
        t \in {"quads", "nodes"} } \cup
    { [isAll |-> FALSE, resultType |-> "quads", d |-> QuadMetadata,
       val |-> Value("QuadRefGraphValue", j)] : j \in DOMAIN FilterMaps } \cup
    { [isAll |-> FALSE, resultType |-> "quads", d |-> "subject", val |-> Value("QuadHash", 1)],
      [isAll |-> FALSE, resultType |-> "quads", d |-> QuadMetadata, val |-> Value("NodeHash", 1)] }

\* The candidates handed to Contains: quad hashes and a node hash.
Candidates == { Value("QuadHash", i) : i \in Ids } \cup { Value("NodeHash", 1) }

NoCall ==
    [ op |-> "none", it |-> 0, ok |-> FALSE, n |-> 0, arg |-> NilValue,
      calls |-> {}, err |-> "none", after |-> "none", exhausted |-> FALSE,
      seen |-> -2, from |-> 0, d |-> "none" ]

\* What is remembered of an instance: the iterator as it was built, the field
\* mapping it was built with, the ids Next yielded since it was built or
\* reset, whether every scroll request since then was answered (none failed),
\* whether Next has reported exhaustion after a scroll-next request since
\* then, what preceded the coming Next ("new", "reset", "next"), the count
\* queries issued and those of them that succeeded, and the value of the
\* last Size since built or reset (-2 when there was none).
NewHist(it, fm) ==
    [ built |-> it, fm |-> fm, trace |-> <<>>, served |-> TRUE,
      exhausted |-> FALSE, after |-> "new", counts |-> 0, counted |-> 0,
      seen |-> -2 ]

Init ==
    /\ its = << >>
    /\ qs \in [ docs : Snapshots, up : BOOLEAN, pageSize : 1 .. MaxHits,
                 endStyle : EndStyles, mapping : {EmptyMap, FullMap} ]
    /\ panic = "none"
    /\ last = NoCall
    /\ hist = << >>

\* The host builds the first iterator (NewIterator or NewAllIterator).
Build ==
    /\ panic = "none"
    /\ DOMAIN its = {}
    /\ \E r \in Requests : \E o \in Orders(r.val) :
         /\ last' = [NoCall EXCEPT !.op = "Build", !.it = 1, !.arg = r.val, !.d = r.d]
         /\ IF ~r.isAll /\ NewIteratorPanics(qs, r.d, r.val)
            THEN /\ panic' = "type assertion"
                 /\ UNCHANGED <<its, hist>>
            ELSE LET it == IF r.isAll THEN NewAllIterator(r.resultType)
                           ELSE NewIterator(qs, r.resultType, r.d, r.val, o)
                 IN  /\ its' = (1 :> it)
                     /\ hist' = (1 :> NewHist(it, getFieldMap(qs)))
                     /\ UNCHANGED panic
    /\ UNCHANGED qs

\* it.Next()
Next(i) ==
    /\ panic = "none"
    /\ i \in DOMAIN its
    /\ LET r == NextStep(its[i], qs)
           h == hist[i]
       IN  /\ its' = [its EXCEPT ![i] = r.it]
           /\ panic' = r.panic
           /\ last' = [NoCall EXCEPT !.op = "Next", !.it = i, !.ok = r.ret,
                                      !.calls = r.calls, !.err = r.err,
                                      !.after = h.after, !.exhausted = h.exhausted]
           /\ hist' = [hist EXCEPT ![i] =
                  [h EXCEPT !.trace = IF r.ret THEN Append(@, r.it.result.id) ELSE @,
                            !.served = @ /\ r.err # "fail",
                            !.exhausted = @ \/ (~r.ret /\ "next" \in r.calls /\ r.panic = "none"),
                            !.after = "next"]]
    /\ UNCHANGED qs

\* it.Contains(v)
Contains(i, v) ==
    /\ panic = "none"
    /\ i \in DOMAIN its
    /\ LET r == ContainsStep(its[i], v)
       IN  /\ its' = [its EXCEPT ![i] = r.it]
           /\ panic' = r.panic
           /\ last' = [NoCall EXCEPT !.op = "Contains", !.it = i, !.ok = r.ret, !.arg = v]
    /\ UNCHANGED <<qs, hist>>

\* Reset on page state shared by all instances: it rewinds every iterator.
ResetShared(i) ==
    /\ panic = "none"
    /\ i \in DOMAIN its
    /\ its' = [j \in DOMAIN its |-> ResetStep(its[j])]
    /\ last' = [NoCall EXCEPT !.op = "Reset", !.it = i]
    /\ hist' = [hist EXCEPT ![i] = [@ EXCEPT !.trace = <<>>, !.served = TRUE,
                                             !.exhausted = FALSE, !.after = "reset",
                                             !.seen = -2]]
    /\ UNCHANGED <<qs, panic>>

\* it.Reset()
Reset(i) ==
    /\ panic = "none"
    /\ i \in DOMAIN its
    /\ its' = [its EXCEPT ![i] = ResetStep(@)]
    /\ last' = [NoCall EXCEPT !.op = "Reset", !.it = i]
    /\ hist' = [hist EXCEPT ![i] = [@ EXCEPT !.trace = <<>>, !.served = TRUE,
                                             !.exhausted = FALSE, !.after = "reset",
                                             !.seen = -2]]
    /\ UNCHANGED <<qs, panic>>

\* it.Clone(): the clone becomes the next instance.
Clone(i) ==
    /\ panic = "none"
    /\ i \in DOMAIN its
    /\ Cardinality(DOMAIN its) < Cardinality(Instances)
    /\ \E o \in Orders(its[i].hash) :
         LET j == Cardinality(DOMAIN its) + 1
             m == CloneStep(its[i], qs, o)
         IN  /\ its' = its @@ (j :> m)
             /\ hist' = hist @@ (j :> NewHist(m, getFieldMap(qs)))
             /\ last' = [NoCall EXCEPT !.op = "Clone", !.it = j, !.from = i]
    /\ UNCHANGED <<qs, panic>>

\* it.Size(), and it.Stats() and it.Describe(), which call it.
SizeCall(i, op) ==
    /\ panic = "none"
    /\ i \in DOMAIN its
    /\ LET r == SizeStep(its[i], qs)
           h == hist[i]
       IN  /\ its' = [its EXCEPT ![i] = r.it]
           /\ last' = [NoCall EXCEPT !.op = op, !.it = i, !.ok = TRUE, !.n = r.ret,
                                      !.calls = r.calls, !.err = r.err, !.seen = h.seen]
           /\ hist' = [hist EXCEPT ![i] =
                  [h EXCEPT !.counts = IF "count" \in r.calls THEN Min(@ + 1, MaxCounts) ELSE @,
                            !.counted = IF "count" \in r.calls /\ r.err = "none"
                                        THEN Min(@ + 1, MaxCounts) ELSE @,
                            !.seen = r.ret]]
    /\ UNCHANGED <<qs, panic>>

Size(i) == SizeCall(i, "Size")

Stats(i) == SizeCall(i, "Stats")

Describe(i) == SizeCall(i, "Describe")

\* The backend stops answering, or answers again.
BackendFail ==
    /\ panic = "none"
    /\ qs.up
    /\ qs' = [qs EXCEPT !.up = FALSE]
    /\ last' = [NoCall EXCEPT !.op = "Backend"]
    /\ UNCHANGED <<its, panic, hist>>

BackendRecover ==
    /\ panic = "none"
    /\ ~qs.up
    /\ qs' = [qs EXCEPT !.up = TRUE]
    /\ last' = [NoCall EXCEPT !.op = "Backend"]
    /\ UNCHANGED <<its, panic, hist>>

\* Another process changes the contents of the index.
BackendChange ==
    /\ panic = "none"
    /\ \E d \in Snapshots \ {qs.docs} : qs' = [qs EXCEPT !.docs = d]
    /\ last' = [NoCall EXCEPT !.op = "Backend"]
    /\ UNCHANGED <<its, panic, hist>>

\* A backend action, which leaves every iterator alone.
Backend ==
    \/ BackendFail
    \/ BackendRecover
    \/ BackendChange

\* Pagination on one iterator: Build, Next and Reset against a backend that
\* fails, recovers and changes.
PagingStep ==
    \/ Build
    \/ Next(1)
    \/ Reset(1)
    \/ Backend

SpecPaging == Init /\ [][PagingStep]_vars

\* Size, Stats and Describe on one iterator, with Reset, against a backend
\* that fails, recovers and changes.
SizingStep ==
    \/ Build
    \/ Size(1)
    \/ Stats(1)
    \/ Describe(1)
    \/ Reset(1)
    \/ Backend

SpecSizing == Init /\ [][SizingStep]_vars

\* Contains on one iterator in every pagination state, against every
\* backend of Init.
MembershipStep ==
    \/ Build
    \/ Next(1)
    \/ Reset(1)
    \/ \E v \in Candidates : Contains(1, v)

SpecMembership == Init /\ [][MembershipStep]_vars

\* The backends the clone runs start from: a full index with a field
\* mapping, whose scroll ends with an error, up or down (down, the field
\* mapping is not to be had), in pages of one hit or of all hits.
InitClone ==
    /\ Init
    /\ Len(qs.docs) = MaxHits
    /\ qs.docs[1] = 1
    /\ qs.endStyle = "error"
    /\ qs.mapping = FullMap
    /\ qs.pageSize \in {1, MaxHits}

\* An original and its clone, with every call on either in any order.
CloneStepAny ==
    \/ Build
    \/ Clone(1)
    \/ \E i \in Instances :
          \/ Next(i)
          \/ Reset(i)
          \/ Size(i)
          \/ Contains(i, Value("QuadHash", 1))

SpecClone == InitClone /\ [][CloneStepAny]_vars

\* ------------------------------------------------------------ properties

\* Is s the first Len(s) elements of t?
IsPrefix(s, t) == Len(s) <= Len(t) /\ s = SubSeq(t, 1, Len(s))

\* The hits the scroll of a started iterator selected, in backend order.
Selected(it) == it.resultSet.ScrollId.snap

\* C1: pagination completeness.  While every scroll request of an iterator
\* is answered, over n >= 1 selected hits served in pages of k <= n, Next
\* never panics, each true Next yields the next hit in backend order, and
\* Next returns false only once all n hits were yielded.
C1_PaginationComplete ==
    \A i \in DOMAIN its :
        ( /\ last.op = "Next" /\ last.it = i
          /\ hist[i].served
          /\ ~its[i].resultSet.nil
          /\ Len(Selected(its[i])) >= 1
          /\ qs.pageSize <= Len(Selected(its[i])) )
        => /\ panic = "none"
           /\ IsPrefix(hist[i].trace, Selected(its[i]))
           /\ last.ok => its[i].result.id = hist[i].trace[Len(hist[i].trace)]
           /\ ~last.ok => hist[i].trace = Selected(its[i])

\* C2: exhaustion is terminal.  A Next made after Next has returned false
\* following a scroll-next request, with no Reset in between, returns false.
C2_ExhaustionTerminal ==
    (last.op = "Next" /\ last.exhausted) => (~last.ok /\ panic = "none")

\* C3: the page position stays within [0, len(hits)] and Next never indexes
\* outside the current page.
C3_IndexInRange ==
    /\ panic # "index out of range"
    /\ \A i \in DOMAIN its :
          /\ 0 <= its[i].resultIndex
          /\ its[i].resultIndex <= Len(its[i].resultSet.hits)

\* C4: a Next that returns false because a backend request failed leaves
\* Err() non-nil, and a Next that returns false on exhaustion leaves it nil.
C4_FailureRecorded ==
    (last.op = "Next" /\ ~last.ok /\ panic = "none")
    => (last.err = "fail") = (Err(its[last.it]) # "nil")

\* C5: the first Next after a Reset issues the scroll-start request and
\* returns what the first Next of the iterator as it was built returns
\* against the same backend: the same boolean and, when true, the same result.
C5_ResetThenAdvance ==
    (last.op = "Next" /\ last.after = "reset")
    => LET fresh == NextStep(hist[last.it].built, qs)
       IN  /\ panic = "none"
           /\ "start" \in last.calls
           /\ last.ok = fresh.ret
           /\ last.ok => its[last.it].result = fresh.it.result

\* A Next that followed a Reset made on a later page yielded a hit again.
C5_Witness ==
    /\ last.op = "Next" /\ last.after = "reset" /\ last.ok
    /\ Len(Selected(its[last.it])) >= 2

\* The results Next yields from it until it returns false or panics, at
\* most fuel of them.
RECURSIVE DrainFrom(_, _, _, _)
DrainFrom(it, q, acc, fuel) ==
    LET r == NextStep(it, q)
    IN  IF r.ret /\ fuel > 0
        THEN DrainFrom(r.it, q, Append(acc, r.it.result), fuel - 1)
        ELSE acc

Drain(it, q) == DrainFrom(it, q, <<>>, MaxHits + 1)

\* C6: a clone starts unstarted (no page, position 0, size not computed, no
\* result, no error) with the original's request, and, when the field
\* mapping answers as it did when the original was built, its query selects
\* the same documents and its Next sequence is the one of the original as
\* built.
C6_CloneIsFresh ==
    last.op = "Clone"
    => LET c == its[last.it]
           o == hist[last.from].built
       IN  /\ c.resultSet = NilResultSet /\ c.resultIndex = 0 /\ c.size = -1
           /\ c.result = NilValue /\ c.err = "nil"
           /\ c.dir = o.dir /\ c.hash = o.hash
           /\ c.isAll = o.isAll /\ c.resultType = o.resultType
           /\ getFieldMap(qs) = hist[last.from].fm
              => /\ \A d \in Ids : Matches(c.query, d) = Matches(o.query, d)
                 /\ Drain(c, qs) = Drain(o, qs)

\* A clone was taken of an original that had advanced and computed its size,
\* and the clone has hits to yield.
C6_Witness ==
    /\ last.op = "Clone"
    /\ its[last.from].resultIndex >= 1
    /\ its[last.from].size >= 1
    /\ Len(Drain(its[last.it], qs)) >= 2

\* C7: instances are independent.  A call changes no instance other than
\* the one it is made on, and what Next, Size and Contains return is what
\* the instance's own state and the backend determine.
C7_Independent ==
    [][ /\ \A j \in DOMAIN its :
             j # last'.it => (j \in DOMAIN its' /\ its'[j] = its[j] /\ hist'[j] = hist[j])
        /\ last'.op = "Next" =>
             /\ last'.ok = NextStep(its[last'.it], qs).ret
             /\ its'[last'.it] = NextStep(its[last'.it], qs).it
        /\ last'.op = "Size" =>
             /\ last'.n = SizeStep(its[last'.it], qs).ret
             /\ its'[last'.it] = SizeStep(its[last'.it], qs).it
        /\ last'.op = "Contains" =>
             /\ last'.ok = ContainsStep(its[last'.it], last'.arg).ret
             /\ its'[last'.it] = ContainsStep(its[last'.it], last'.arg).it
        /\ last'.op = "Reset" => its'[last'.it] = ResetStep(its[last'.it])
      ]_vars

\* The original and its clone stand at different positions of their pages
\* after a call on the clone.
C7_Witness ==
    /\ DOMAIN its = Instances
    /\ last.it = 2
    /\ ~its[1].resultSet.nil /\ ~its[2].resultSet.nil
    /\ its[1].resultIndex # its[2].resultIndex
    /\ its[1].size # its[2].size

SizeOps == {"Size", "Stats", "Describe"}

\* C8: Size is cached.  A Size, Stats or Describe call returns what the
\* previous one returned when no Reset came between them, and an instance
\* issues at most one count query.
C8_SizeCached ==
    /\ \A i \in DOMAIN its : hist[i].counts <= 1
    /\ (last.op \in SizeOps /\ last.seen # -2) => last.n = last.seen

\* C8 as amended: once a call has returned a computed size (not -1), the
\* calls after it with no Reset in between return that size and issue no
\* count query, and at most one count query of an instance succeeds.
C8_SizeCachedOnceCounted ==
    /\ \A i \in DOMAIN its : hist[i].counted <= 1
    /\ (last.op \in SizeOps /\ last.seen \notin {-2, -1})
       => (last.n = last.seen /\ last.calls = {})

\* A second size call returned the cached size although the index now holds
\* a different number of matching documents.
C8_Witness ==
    /\ last.op \in SizeOps
    /\ last.seen \notin {-2, -1}
    /\ last.n # Len(Hits(qs, its[last.it].query))

\* C9: on a directed exact-match iterator, Contains of a quad returns true
\* exactly when the quad's component on the iterator's direction is the
\* target, and then makes the quad the result.
C9_ContainsExact ==
    ( /\ last.op = "Contains"
      /\ ~hist[last.it].built.isAll
      /\ hist[last.it].built.dir \in Dirs
      /\ last.arg.type = "QuadHash" )
    => /\ panic = "none"
       /\ last.ok = (DocField(last.arg.id, hist[last.it].built.dir)
                        = hist[last.it].built.hash.id)
       /\ last.ok => its[last.it].result = last.arg

\* Contains returned false on an exact-match iterator standing inside a
\* page, for a quad that the index holds.
C9_Witness ==
    /\ last.op = "Contains" /\ ~last.ok /\ panic = "none"
    /\ hist[last.it].built.dir \in Dirs
    /\ its[last.it].resultIndex >= 1
    /\ \E k \in DOMAIN qs.docs : qs.docs[k] = last.arg.id

\* C10: on an "all" iterator and on a metadata iterator, Contains returns
\* true for every candidate and makes it the result.
C10_ContainsAllMeta ==
    ( /\ last.op = "Contains"
      /\ (its[last.it].isAll \/ its[last.it].dir = QuadMetadata) )
    => /\ panic = "none"
       /\ last.ok
       /\ its[last.it].result = last.arg

\* Does filter map m hold a key that fieldMap types as a date and whose
\* value has fewer than two parts around "=>"?
Malformed(m, fieldMap) ==
    \E k \in DOMAIN m : isTime(fieldMap, k) /\ Len(Split(m[k])) < 2

\* Is instance i a metadata iterator built from a filter map?
IsMetadata(i) ==
    /\ hist[i].built.dir = QuadMetadata
    /\ hist[i].built.hash.type = "QuadRefGraphValue"

\* C11: an iterator built from a filter map with a malformed range on a
\* time-typed key has a query that no document satisfies, whatever the other
\* entries and the order of the keys, so Next never yields a result; it
\* returns false without a panic and without an error in Err().
C11_MalformedRangeMatchesNothing ==
    \A i \in DOMAIN its :
        (IsMetadata(i) /\ Malformed(FilterMaps[its[i].hash.id], hist[i].fm))
        => /\ \A d \in Ids : ~Matches(its[i].query, d)
           /\ hist[i].trace = <<>>
           /\ (last.op = "Next" /\ last.it = i)
              => (~last.ok /\ panic = "none" /\ Err(its[i]) = "nil")

\* Next returned false on an iterator whose filter map holds a pattern that
\* every document satisfies, visited first, and a malformed range, against a
\* backend that is up and holds documents.
C11_Witness ==
    /\ last.op = "Next" /\ ~last.ok /\ qs.up /\ Len(qs.docs) >= 2
    /\ IsMetadata(last.it)
    /\ Malformed(FilterMaps[its[last.it].hash.id], hist[last.it].fm)
    /\ Len(its[last.it].query.filters) = 2

\* C12: a metadata request built while the field mapping is empty or cannot
\* be retrieved builds an iterator (no panic) whose query no document
\* satisfies, so Next never yields a result.
C12_NoSchemaMatchesNothing ==
    /\ (last.op = "Build" /\ last.d = QuadMetadata /\ getFieldMap(qs) = EmptyMap)
       => (panic = "none" /\ DOMAIN its = {1})
    /\ \A i \in DOMAIN its :
          (hist[i].built.dir = QuadMetadata /\ hist[i].fm = EmptyMap)
          => /\ \A d \in Ids : ~Matches(its[i].query, d)
             /\ hist[i].trace = <<>>
             /\ (last.op = "Next" /\ last.it = i) => (~last.ok /\ panic = "none")

\* Next returned false on a metadata iterator built without a field mapping,
\* from a filter map without a malformed range, against a backend that is up
\* and holds documents.
C12_Witness ==
    /\ last.op = "Next" /\ ~last.ok /\ qs.up /\ Len(qs.docs) >= 2
    /\ IsMetadata(last.it)
    /\ hist[last.it].fm = EmptyMap
    /\ ~Malformed(FilterMaps[its[last.it].hash.id], FullMap)

\* Does the scroll-start request of it end in an error now: the backend is
\* down, or it signals "no hits" with an error and there are none?
StartFails(it) ==
    \/ ~qs.up
    \/ /\ qs.endStyle = "error"
       /\ (IF it.isAll THEN qs.docs ELSE Hits(qs, it.query)) = <<>>

\* C13: a Next on an iterator that holds no page, whose scroll-start request
\* ends in an error, returns false without a panic and leaves the iterator
\* as it was - no page, position 0, the same result value - having issued the
\* scroll-start request and nothing else; so the Next after it issues the
\* scroll-start request again.
C13_FailedStartStaysUnstarted ==
    [][\A i \in DOMAIN its :
          (its[i].resultSet.nil /\ StartFails(its[i])
             /\ last'.op = "Next" /\ last'.it = i)
          => /\ ~last'.ok
             /\ panic' = "none"
             /\ last'.calls = {"start"}
             /\ last'.err # "none"
             /\ its'[i] = its[i]
             /\ its'[i].resultSet.nil
             /\ its'[i].resultIndex = 0]_vars

\* A second Next in a row failed on its scroll-start request, on an iterator
\* that had yielded a value before it was reset: it is still without a page
\* and still holds that value.
C13_Witness ==
    /\ last.op = "Next" /\ ~last.ok
    /\ last.err = "fail" /\ last.calls = {"start"} /\ last.after = "next"
    /\ its[last.it].resultSet.nil
    /\ its[last.it].resultIndex = 0
    /\ its[last.it].result # NilValue

\* Is instance i an exact-match iterator, built from a direction and a node
\* hash?
IsExact(i) == hist[i].built.dir \in Dirs /\ ~hist[i].built.isAll

\* C14: no false positives.  Every value that Next has yielded on an
\* exact-match iterator for (d, v) since it was built or reset, on any page,
\* is the quad hash of a document that the index held when the scroll
\* started and whose field d is v.
C14_NoFalsePositives ==
    \A i \in DOMAIN its :
        IsExact(i)
        => /\ \A k \in DOMAIN hist[i].trace :
                /\ DocField(hist[i].trace[k], hist[i].built.dir) = hist[i].built.hash.id
                /\ \E j \in DOMAIN Selected(its[i]) : Selected(its[i])[j] = hist[i].trace[k]
           /\ (last.op = "Next" /\ last.it = i /\ last.ok)
              => /\ its[i].result.type = "QuadHash"
                 /\ Get(its[i].result, its[i].dir) = its[i].hash.id

\* Next yielded its second value, from a later page, on an exact-match
\* iterator over an index that also holds a document the request does not
\* select.
C14_Witness ==
    /\ last.op = "Next" /\ last.ok /\ last.calls = {"next"}
    /\ IsExact(last.it)
    /\ \E k \in DOMAIN qs.docs :
          DocField(qs.docs[k], its[last.it].dir) # its[last.it].hash.id
    /\ hist[last.it].after = "next" /\ Len(hist[last.it].trace) = 2
    /\ its[last.it].result # hist[last.it].built.result

ScrollCalls == {"start", "next"}

\* The page a Next on it works with once the scroll has started: the page
\* it holds, or the one its scroll-start request brings.
PageHeld(it) ==
    IF it.resultSet.nil THEN makeElasticResultSet(it, qs).page ELSE it.resultSet

\* C15: scroll requests are lazy.  Build, Clone, Size, Contains and Reset
\* issue no scroll request: a new instance holds no page and a call other
\* than Next leaves every page as it was or, for Reset, drops it.  Next
\* issues the scroll-start request exactly when the iterator holds no page,
\* and the scroll-next request only with the position at the length of the
\* page held, the page it then stores being the backend's answer to the
\* scroll id of that page; without a scroll-next request a page held is kept.
C15_ScrollLazy ==
    [][/\ last'.op # "Next"
          => /\ last'.calls \cap ScrollCalls = {}
             /\ \A j \in DOMAIN its' :
                  IF j \in DOMAIN its
                  THEN \/ its'[j].resultSet = its[j].resultSet
                       \/ last'.op = "Reset" /\ last'.it = j /\ its'[j].resultSet.nil
                  ELSE its'[j].resultSet.nil
       /\ last'.op = "Next"
          => LET i == last'.it
                 page == PageHeld(its[i])
             IN  /\ ("start" \in last'.calls) = its[i].resultSet.nil
                 /\ \A j \in DOMAIN its \ {i} : its'[j].resultSet = its[j].resultSet
                 /\ "next" \in last'.calls
                    => /\ ~page.nil
                       /\ its[i].resultIndex = Len(page.hits)
                       /\ last'.ok
                          => its'[i].resultSet = ScrollNext(qs, page.ScrollId).page
                 /\ "next" \notin last'.calls
                    => its'[i].resultSet \in {page, its[i].resultSet}]_vars

\* Next fetched the third page with a scroll-next request, on an iterator
\* whose clone exists and still holds no page.
C15_Witness ==
    /\ last.op = "Next" /\ last.ok /\ last.calls = {"next"}
    /\ its[last.it].resultSet.ScrollId.off = 3
    /\ Len(its[last.it].resultSet.hits) = 1
    /\ \E j \in DOMAIN its : j # last.it /\ its[j].resultSet.nil

\* C16: Reset drops the pagination state and nothing else: afterwards the
\* iterator holds no page at position 0, and its query, request (direction,
\* hash, type, "all" flag), cached size, sticky error and result value are
\* what they were.  A Size that follows a Reset of an iterator with a cached
\* size returns that size and issues no count query.
C16_ResetKeepsTheRest ==
    [][/\ last'.op = "Reset"
          => LET i == last'.it
             IN  /\ its'[i].resultSet = NilResultSet
                 /\ its'[i].resultIndex = 0
                 /\ its'[i].query = its[i].query
                 /\ its'[i].dir = its[i].dir
                 /\ its'[i].hash = its[i].hash
                 /\ its'[i].resultType = its[i].resultType
                 /\ its'[i].isAll = its[i].isAll
                 /\ its'[i].size = its[i].size
                 /\ its'[i].err = its[i].err
                 /\ its'[i].result = its[i].result
       /\ (last.op = "Reset" /\ last'.op \in SizeOps /\ last'.it = last.it
             /\ its[last.it].size # -1)
          => /\ last'.n = its[last.it].size
             /\ last'.calls = {}
             /\ its'[last.it].size = its[last.it].size]_vars

\* Size returned the cached size without a count query, as the first call
\* after the Reset of an iterator that had yielded a value.
C16_Witness ==
    /\ last.op = "Size" /\ last.calls = {} /\ last.seen = -2 /\ last.n > 0
    /\ hist[last.it].after = "reset"
    /\ its[last.it].resultSet.nil
    /\ its[last.it].result # NilValue

\* Has a count query of instance i failed?  (Of the count queries issued,
\* at most one succeeds, and the tally of those issued stops at MaxCounts.)
CountFailed(i) == hist[i].counts > hist[i].counted

C18_ResultChangesOnSuccess ==
    [][\A j \in DOMAIN its' :
          IF j \in DOMAIN its
          THEN its'[j].result # its[j].result
               => /\ last'.op \in {"Next", "Contains"}
                  /\ last'.it = j
                  /\ last'.ok
          ELSE its'[j].result = NilValue]_vars

\* Contains returned false on an iterator that holds the value its last
\* successful Next stored, a quad other than the candidate.
C18_Witness ==
    /\ last.op = "Contains" /\ ~last.ok
    /\ its[last.it].result.type = "QuadHash"
    /\ its[last.it].result # last.arg
    /\ its[last.it].resultIndex > 0

\* C19: Contains leaves the page, the position and the cached size of the
\* iterator as they were, so the values that the Next calls after it yield
\* are the ones they would have yielded without it, although a Contains
\* that returns true stores the candidate as the result value.
C19_ContainsKeepsPagination ==
    [][last'.op = "Contains"
       => LET i == last'.it
          IN  /\ its'[i].resultSet = its[i].resultSet
              /\ its'[i].resultIndex = its[i].resultIndex
              /\ its'[i].size = its[i].size
              /\ Drain(its'[i], qs') = Drain(its[i], qs)
              /\ last'.ok => its'[i].result = last'.arg]_vars

\* Contains returned true in the middle of the results, on a candidate
\* other than the value the last Next yielded, with values still to come.
C19_Witness ==
    /\ last.op = "Contains" /\ last.ok
    /\ its[last.it].resultIndex > 0
    /\ its[last.it].result = last.arg
    /\ hist[last.it].trace # <<>>
    /\ hist[last.it].trace[Len(hist[last.it].trace)] # last.arg.id
    /\ Drain(its[last.it], qs) # <<>>

\* C20: a value of unexpected shape never ends the process: no Build with a
\* value that is not a node hash for a direction, or not a filter map for
\* metadata, and no Contains with a candidate that is not a quad hash, ends
\* in the panic of a failed type assertion.
C20_ShapeNeverPanics ==
    /\ panic # "type assertion"
    /\ (last.op = "Build" /\ last.d \in Dirs /\ last.arg.type # "NodeHash")
       => panic = "none"
    /\ (last.op = "Build" /\ last.d = QuadMetadata
          /\ last.arg.type # "QuadRefGraphValue")
       => panic = "none"
    /\ (last.op = "Contains" /\ last.arg.type # "QuadHash") => panic = "none"
====
